---- MODULE Spec2Model ----
(***************************************************************************)
(* Model of the CENDOJ search endpoint (src/main.py, v1.9): query          *)
(* normalisation, synonym detection, corpus matching, hybrid ranking,      *)
(* link resolution with optional live validation, and note composition.    *)
(*                                                                         *)
(* Text is a sequence of atoms: an atom is a word, a blank " ", or a       *)
(* punctuation mark.  Python's substring test `a in b` is the contiguous   *)
(* subsequence test on atoms.  Accented letters are written unaccented     *)
(* (the code never folds accents, so this is only a spelling of the data). *)
(* Scores are kept exact as integers scaled by 10 * 100 * 1095.            *)
(***************************************************************************)
EXTENDS Integers, Sequences, FiniteSets, TLC

VARIABLES corpus, hoy, req, resp, traza, prev, pc

vars == <<corpus, hoy, req, resp, traza, prev, pc>>

\* ------------------------------------------------------------------ bounds
MaxLimite == 3
MaxYears == 2

\* --------------------------------------------------------- Python's None
None == <<>>

\* ------------------------------------------------------------------ text
SP == " "
LowerTable ==
  [a \in {"Licencia", "Sentencia", "Tribunal", "Superior", "Justicia",
          "Cataluna", "TSJC", "Supremo", "TS", "Sala", "Contencioso-Administrativo",
          "Tercera", "Cont.-Adm.", "Volumen", "DISCONFORME", "Audiencia",
          "Nacional", "Fuera", "Garaje"} |->
     CASE a = "Licencia" -> "licencia"
       [] a = "Sentencia" -> "sentencia"
       [] a = "Tribunal" -> "tribunal"
       [] a = "Superior" -> "superior"
       [] a = "Justicia" -> "justicia"
       [] a = "Cataluna" -> "cataluna"
       [] a = "TSJC" -> "tsjc"
       [] a = "Supremo" -> "supremo"
       [] a = "TS" -> "ts"
       [] a = "Sala" -> "sala"
       [] a = "Contencioso-Administrativo" -> "contencioso-administrativo"
       [] a = "Tercera" -> "tercera"
       [] a = "Cont.-Adm." -> "cont.-adm."
       [] a = "Volumen" -> "volumen"
       [] a = "DISCONFORME" -> "disconforme"
       [] a = "Audiencia" -> "audiencia"
       [] a = "Nacional" -> "nacional"
       [] a = "Fuera" -> "fuera"
       [] a = "Garaje" -> "garaje"]

\* str.lower on one atom
Lower(a) == IF a \in DOMAIN LowerTable THEN LowerTable[a] ELSE a

\* whitespace atoms: blank and tab
IsSpace(a) == a \in {" ", "\t"}

RECURSIVE LStrip(_, _)
LStrip(s, chars) ==
  IF s # <<>> /\ Head(s) \in chars THEN LStrip(Tail(s), chars) ELSE s

RECURSIVE RStrip(_, _)
RStrip(s, chars) ==
  IF s # <<>> /\ s[Len(s)] \in chars THEN RStrip(SubSeq(s, 1, Len(s) - 1), chars) ELSE s

\* str.strip(chars)
Strip(s, chars) == RStrip(LStrip(s, chars), chars)

\* re.sub(r"\s+", " ", s): every run of whitespace becomes one blank
RECURSIVE CollapseSpaces(_)
CollapseSpaces(s) ==
  IF s = <<>> THEN <<>>
  ELSE IF IsSpace(Head(s))
       THEN <<SP>> \o CollapseSpaces(LStrip(Tail(s), {" ", "\t"}))
       ELSE <<Head(s)>> \o CollapseSpaces(Tail(s))

\* the three typographic quote replacements
ReplaceQuote(a) ==
  CASE a = "RSQUO" -> "'"
    [] a = "LDQUO" -> "\""
    [] a = "RDQUO" -> "\""
    [] OTHER -> a

normalize_text(s) ==
  LET s1 == [i \in 1..Len(Strip(s, {" ", "\t"})) |-> Lower(Strip(s, {" ", "\t"})[i])]
      s2 == CollapseSpaces(s1)
      s3 == [i \in 1..Len(s2) |-> ReplaceQuote(s2[i])]
  IN  Strip(Strip(s3, {"\""}), {"'"})

\* Python's `a in b` on strings
Contains(b, a) ==
  \E i \in 0..(Len(b) - Len(a)) : \A j \in 1..Len(a) : b[i + j] = a[j]

\* sep.join(list)
RECURSIVE Join(_, _)
Join(sep, l) ==
  IF l = <<>> THEN <<>>
  ELSE IF Len(l) = 1 THEN l[1]
  ELSE l[1] \o sep \o Join(sep, Tail(l))

\* ------------------------------------------------------------- tables
\* SYNONYMS, in the dict's insertion order
SYNONYMS ==
  << [k |-> <<"suelo", SP, "no", SP, "urbanizable">>,
      vs |-> << <<"suelo", SP, "rustico">>, <<"suelos", SP, "protegidos">> >>],
     [k |-> <<"fuera", SP, "de", SP, "ordenacion">>,
      vs |-> << <<"situacion", SP, "de", SP, "fuera", SP, "de", SP, "ordenacion">> >>],
     [k |-> <<"volumen", SP, "disconforme">>,
      vs |-> << <<"edificacion", SP, "disconforme">> >>],
     [k |-> <<"garaje", SP, "ilegal">>,
      vs |-> << <<"aparcamiento", SP, "ilegal">>, <<"cochera", SP, "sin", SP, "licencia">> >>] >>

URBANISMO_CATALAN_TRIGGERS ==
  << <<"urbanizable">>,
     <<"suelo", SP, "no", SP, "urbanizable">>,
     <<"fuera", SP, "de", SP, "ordenacion">>,
     <<"edificacion", SP, "disconforme">>,
     <<"licencia", SP, "urbanistica">>,
     <<"planeamiento">>,
     <<"disciplina", SP, "urbanistica">>,
     <<"volumen", SP, "disconforme">>,
     <<"ordenacion", SP, "urbanistica">> >>

\* ----------------------------------------------------------- date strings
\* A date string is "" (empty), text that is no date ("text"), or digits in
\* the shape dddd-dd-dd ("ymd"); an absent parameter is "none".
Ymd(y, m, d) == [kind |-> "ymd", y |-> y, m |-> m, d |-> d]
EmptyStr == [kind |-> "empty", y |-> 0, m |-> 0, d |-> 0]
TextStr == [kind |-> "text", y |-> 0, m |-> 0, d |-> 0]
NoneStr == [kind |-> "none", y |-> 0, m |-> 0, d |-> 0]

IsLeap(y) == (y % 4 = 0 /\ y % 100 # 0) \/ y % 400 = 0

DaysInMonth(y, m) ==
  IF m = 2 THEN (IF IsLeap(y) THEN 29 ELSE 28)
  ELSE IF m \in {4, 6, 9, 11} THEN 30 ELSE 31

\* datetime.strptime(d, "%Y-%m-%d") succeeds
ValidYmd(s) ==
  /\ s.kind = "ymd"
  /\ s.y \in 1..9999
  /\ s.m \in 1..12
  /\ s.d \in 1..DaysInMonth(s.y, s.m)

\* date.toordinal up to a constant: days since 1970-01-01
Ordinal(dt) ==
  LET y == IF dt[2] <= 2 THEN dt[1] - 1 ELSE dt[1]
      era == y \div 400
      yoe == y - era * 400
      mp == IF dt[2] > 2 THEN dt[2] - 3 ELSE dt[2] + 9
      doy == (153 * mp + 2) \div 5 + dt[3] - 1
      doe == yoe * 365 + yoe \div 4 - yoe \div 100 + doy
  IN  era * 146097 + doe - 719468

\* date < date
DateLess(a, b) == Ordinal(a) < Ordinal(b)

\* a parsed date is <<y, m, d>>; None when absent, empty or malformed
parse_date(d) ==
  IF d.kind \in {"none", "empty"} THEN None
  ELSE IF ValidYmd(d) THEN <<d.y, d.m, d.d>>
  ELSE None

\* ------------------------------------------------------------- ranking
DECAY_DAYS == 1095
W_REL == 7
W_REC == 3

Max(a, b) == IF a >= b THEN a ELSE b
Min(a, b) == IF a <= b THEN a ELSE b

\* hybrid_score times 2 * 10 * 100 * DECAY_DAYS; relevancia in hundredths
hybrid_score(relevancia, fecha_doc, today) ==
  LET rel == Max(0, Min(100, relevancia))
  IN  IF fecha_doc.kind \in {"none", "empty"}
      THEN 2 * 10 * rel * DECAY_DAYS
      ELSE LET recency2 ==
                 IF ValidYmd(fecha_doc)
                 THEN LET delta_days ==
                            Max(0, Ordinal(today) - Ordinal(<<fecha_doc.y, fecha_doc.m, fecha_doc.d>>))
                      IN  2 * Max(0, DECAY_DAYS - delta_days)
                 ELSE DECAY_DAYS
           IN  2 * W_REL * rel * DECAY_DAYS + W_REC * 100 * recency2

\* list.sort(key, reverse): the stable order of the indices of `keys`
RECURSIVE InsertIdx(_, _, _, _)
InsertIdx(sorted, i, keys, reverse) ==
  IF sorted = <<>> THEN <<i>>
  ELSE LET h == Head(sorted)
           before == IF reverse THEN keys[h] >= keys[i] ELSE keys[h] <= keys[i]
       IN  IF before THEN <<h>> \o InsertIdx(Tail(sorted), i, keys, reverse)
           ELSE <<i>> \o sorted

RECURSIVE SortIdx(_, _, _)
SortIdx(keys, n, reverse) ==
  IF n = 0 THEN <<>>
  ELSE InsertIdx(SortIdx(keys, n - 1, reverse), n, keys, reverse)

StableSort(l, keys, reverse) ==
  LET idx == SortIdx(keys, Len(l), reverse)
  IN  [i \in 1..Len(l) |-> l[idx[i]]]

\* the sort key of x.get("fecha", ""): string order of the date string
FechaKey(f) ==
  CASE f.kind = "ymd" -> f.y * 10000 + f.m * 100 + f.d
    [] f.kind = "text" -> 100000000
    [] OTHER -> 0

\* filter of a sequence, keeping order
RECURSIVE SelectIdx(_, _)
SelectIdx(keep, n) ==
  IF n = 0 THEN <<>>
  ELSE IF keep[n] THEN SelectIdx(keep, n - 1) \o <<n>> ELSE SelectIdx(keep, n - 1)


\* -------------------------------------------------------------- corpus
TSJC_ORGANO ==
  <<"Tribunal", SP, "Superior", SP, "de", SP, "Justicia", SP, "de", SP, "Cataluna", SP,
    "(", "TSJC", ")">>
SALA_CA == <<"Sala", SP, "de", SP, "lo", SP, "Contencioso-Administrativo">>

EXAMPLES ==
  << [id_cendoj |-> <<"0801932001202400077">>,
      titulo |-> <<"Licencia", SP, "urbanistica", SP, "en", SP, "suelo", SP, "no", SP,
                   "urbanizable", ":", SP, "criterios", SP, "recientes">>,
      organo |-> TSJC_ORGANO,
      sala |-> SALA_CA,
      fecha |-> Ymd(2024, 2, 12),
      relevancia |-> 76,
      ecli |-> <<"ECLI:ES:TS:2024:1234">>,
      roj |-> <<"STS", SP, "1234/2024">>,
      tags |-> << <<"urbanizable">>, <<"suelo", SP, "no", SP, "urbanizable">> >>],
     [id_cendoj |-> <<"28079130012022000456">>,
      titulo |-> <<"Sentencia", SP, "ejemplo", SP, "sobre", SP, "'", "fuera", SP, "de", SP,
                   "ordenacion", "'", SP, "en", SP, "suelo", SP, "urbano">>,
      organo |-> <<"Tribunal", SP, "Supremo", SP, "(", "TS", ")">>,
      sala |-> <<"Sala", SP, "Tercera", SP, "(", "Cont.-Adm.", ")">>,
      fecha |-> Ymd(2022, 11, 3),
      relevancia |-> 82,
      ecli |-> <<"ECLI:ES:TS:2022:456">>,
      roj |-> <<"STS", SP, "456/2022">>,
      tags |-> << <<"ordenacion">>, <<"fuera", SP, "de", SP, "ordenacion">> >>],
     [id_cendoj |-> <<"08019320012023000123">>,
      titulo |-> <<"Sentencia", SP, "ejemplo", SP, "sobre", SP, "'", "volumen", SP,
                   "disconforme", "'">>,
      organo |-> TSJC_ORGANO,
      sala |-> SALA_CA,
      fecha |-> Ymd(2023, 5, 10),
      relevancia |-> 18,
      ecli |-> <<"ECLI:ES:TSJC:2023:789">>,
      roj |-> <<"STSJC", SP, "789/2023">>,
      tags |-> << <<"ordenacion">>, <<"volumen", SP, "disconforme">> >>] >>

\* ----------------------------------------------------- query expansion
RECURSIVE Flatten(_)
Flatten(ll) == IF ll = <<>> THEN <<>> ELSE Head(ll) \o Flatten(Tail(ll))

\* the synonyms added for the note: for each key in qn, its values not in qn
SynAdded(qn) ==
  LET NotIn(v) == ~Contains(qn, v)
  IN  Flatten([i \in 1..Len(SYNONYMS) |->
                 IF Contains(qn, SYNONYMS[i].k)
                 THEN SelectSeq(SYNONYMS[i].vs, NotIn)
                 ELSE <<>>])

expand_query(q) == [qn |-> normalize_text(q), added |-> SynAdded(normalize_text(q))]

detect_urbanismo_catalan(qn) ==
  \E i \in 1..Len(URBANISMO_CATALAN_TRIGGERS) : Contains(qn, URBANISMO_CATALAN_TRIGGERS[i])

\* ------------------------------------------------------------ matching
\* the text test of search_examples on one record
Hay(qn, r) ==
  \/ Contains(normalize_text(r.titulo), qn)
  \/ \E t \in 1..Len(r.tags) : Contains(qn, r.tags[t])
  \/ Contains(normalize_text(Join(<<SP>>, r.tags)), qn)

\* the date test of search_examples on one record
InRange(r, desde, hasta) ==
  LET f == parse_date(r.fecha)
  IN  /\ ~(desde # None /\ f # None /\ DateLess(f, desde))
      /\ ~(hasta # None /\ f # None /\ DateLess(hasta, f))

search_examples(qn, desde, hasta, corp, today) ==
  LET keep == [i \in 1..Len(corp) |-> Hay(qn, corp[i]) /\ InRange(corp[i], desde, hasta)]
      idx == SelectIdx(keep, Len(corp))
      out == [i \in 1..Len(idx) |-> corp[idx[i]]]
      keys == [i \in 1..Len(out) |-> hybrid_score(out[i].relevancia, out[i].fecha, today)]
  IN  StableSort(out, keys, TRUE)

\* ---------------------------------------------------------------- links
\* CENDOJ_DIRECTO.format(id_cendoj=idc)
UrlDirecto(idc) == <<"cedula.jsp?id=", idc>>
\* PORTAL_BUSCADOR, with ?q=quote_plus(q) when q is not empty
UrlEstable(q) == IF q # <<>> THEN <<"indexAN.jsp?q=", q>> ELSE <<"indexAN.jsp">>
\* GOOGLE_SITE.format(q=...)
UrlGoogle(q) == <<"google?q=site:poderjudicial.es", IF q # <<>> THEN q ELSE <<"CENDOJ">> >>

build_summary(rec) == <<rec.titulo, rec.organo, rec.sala, rec.fecha>>

\* lines 311-321: the public projection of a candidate
FormatRecord(r) ==
  LET rec == [titulo |-> r.titulo, organo |-> r.organo, sala |-> r.sala,
              fecha |-> r.fecha, relevancia |-> r.relevancia,
              id_cendoj |-> r.id_cendoj, roj |-> r.roj, ecli |-> r.ecli]
  IN  [resumen |-> build_summary(rec)] @@ rec

build_links(record) ==
  LET idc == record.id_cendoj
      ecli == Strip(record.ecli, {" ", "\t"})
      roj == Strip(record.roj, {" ", "\t"})
      q == IF ecli # <<>> THEN ecli ELSE roj
  IN  [url_directo |-> IF idc # <<>> THEN UrlDirecto(idc) ELSE None,
       url_estable |-> UrlEstable(q),
       url_estable_secundaria |-> UrlGoogle(q),
       enlace_preferido |-> UrlEstable(q),
       enlace_directo_ok |-> "None",
       estrategia_enlace |-> "estable",
       sonda |-> "sin_sonda"] @@ record

\* what urlopen did on one probe: raised (timeout, network error, HTTP error
\* status) or returned a response with a status and a body
ProbeOutcomes ==
  { [kind |-> "timeout", status |-> 0, pagina_error |-> FALSE],
    [kind |-> "respuesta", status |-> 204, pagina_error |-> FALSE],
    [kind |-> "respuesta", status |-> 200, pagina_error |-> TRUE],
    [kind |-> "respuesta", status |-> 200, pagina_error |-> FALSE] }

ProbeName(p) ==
  CASE p.kind # "respuesta" -> p.kind
    [] p.status # 200 -> "status_no_200"
    [] p.pagina_error -> "pagina_error"
    [] OTHER -> "ok"

\* validar_enlace without the look at the body for the portal's error page
validar_enlace_sin_cuerpo(p) ==
  IF p.kind # "respuesta" THEN FALSE
  ELSE IF p.status # 200 THEN FALSE
  ELSE TRUE

validar_enlace(p) ==
  IF p.kind # "respuesta" THEN FALSE
  ELSE IF p.status # 200 THEN FALSE
  ELSE IF p.pagina_error THEN FALSE
  ELSE TRUE

\* one entry of nota_msgs / info_bits
Msg(t, arg) == [t |-> t, arg |-> arg]

\* ResolveLink with the failed branch keeping the direct link as preferred
ResolveLink_prefiere_directo(rec, validar_enlaces, p) ==
  IF validar_enlaces /\ rec.url_directo # None
  THEN LET ok == validar_enlace(p)
       IN  IF ok
           THEN [rec EXCEPT !.enlace_directo_ok = "True",
                            !.enlace_preferido = rec.url_directo,
                            !.estrategia_enlace = "directo",
                            !.sonda = ProbeName(p)]
           ELSE [rec EXCEPT !.enlace_directo_ok = "False",
                            !.enlace_preferido = rec.url_directo,
                            !.estrategia_enlace = "estable",
                            !.sonda = ProbeName(p)]
  ELSE [rec EXCEPT !.enlace_preferido = rec.url_estable,
                   !.estrategia_enlace = "estable"]

\* lines 326-341: validation of the direct link and choice of the preferred one
ResolveLink(rec, validar_enlaces, p) ==
  IF validar_enlaces /\ rec.url_directo # None
  THEN LET ok == validar_enlace(p)
       IN  IF ok
           THEN [rec EXCEPT !.enlace_directo_ok = "True",
                            !.enlace_preferido = rec.url_directo,
                            !.estrategia_enlace = "directo",
                            !.sonda = ProbeName(p)]
           ELSE [rec EXCEPT !.enlace_directo_ok = "False",
                            !.enlace_preferido = rec.url_estable,
                            !.estrategia_enlace = "estable",
                            !.sonda = ProbeName(p)]
  ELSE [rec EXCEPT !.enlace_preferido = rec.url_estable,
                   !.estrategia_enlace = "estable"]

\* the nota_msgs entries the loop body appends for one formatted result
ResultMsgs(rec, validar_enlaces, requested_org) ==
  (IF validar_enlaces /\ rec.url_directo # None /\ rec.enlace_directo_ok = "False"
   THEN <<Msg("enlace_directo_fallido", <<rec.id_cendoj>>)>> ELSE <<>>)
  \o
  (IF requested_org # <<>> /\ ~Contains(normalize_text(rec.organo), requested_org)
   THEN <<Msg("algun_resultado_organo_distinto", <<>>)>> ELSE <<>>)


\* ------------------------------------------------------- buscar_cendoj
\* OrdenExplicito without the fecha_asc branch
OrdenExplicito_sin_asc(raw, orden) ==
  LET fkeys == [i \in 1..Len(raw) |-> FechaKey(raw[i].fecha)]
  IN  IF orden = "fecha_desc" THEN StableSort(raw, fkeys, TRUE)
      ELSE raw

\* lines 302-306: the explicit order by date, when asked for
OrdenExplicito(raw, orden) ==
  LET fkeys == [i \in 1..Len(raw) |-> FechaKey(raw[i].fecha)]
  IN  IF orden = "fecha_desc" THEN StableSort(raw, fkeys, TRUE)
      ELSE IF orden = "fecha_asc" THEN StableSort(raw, fkeys, FALSE)
      ELSE raw

\* lines 281-286: the effective date range, swapped when given inverted
EffectiveRange(p_desde, p_hasta) ==
  IF p_desde # None /\ p_hasta # None /\ DateLess(p_hasta, p_desde)
  THEN [invertido |-> TRUE, d_desde |-> p_hasta, d_hasta |-> p_desde]
  ELSE [invertido |-> FALSE, d_desde |-> p_desde, d_hasta |-> p_hasta]

\* line 292: the normalised organ filter, empty when none is given
RequestedOrg(organo) == IF organo # <<>> THEN normalize_text(organo) ELSE <<>>

\* lines 293-300: the organ filter over what was found, dropped again when
\* it leaves nothing and there is something without it
FilterOrgan(found, requested_org) ==
  LET OrgOk(x) == Contains(normalize_text(x.organo), requested_org)
      filtered == IF requested_org # <<>> THEN SelectSeq(found, OrgOk) ELSE found
  IN  IF requested_org # <<>> /\ filtered = <<>> /\ found # <<>>
      THEN [relajado |-> TRUE, raw |-> found]
      ELSE [relajado |-> FALSE, raw |-> filtered]

\* resultados_raw[:limite]
Limit(l, limite) == SubSeq(l, 1, Min(limite, Len(l)))

\* the entries nota_msgs holds when the loop over the results starts
FirstMsgs(syn_added, experto_activo, invertido, relajado) ==
  (IF syn_added # <<>> THEN <<Msg("sinonimos_anadidos", syn_added)>> ELSE <<>>)
  \o (IF experto_activo THEN <<Msg("experto_tematico", <<>>)>> ELSE <<>>)
  \o (IF invertido THEN <<Msg("rango_fechas_corregido", <<>>)>> ELSE <<>>)
  \o (IF relajado THEN <<Msg("organo_relajado", <<>>)>> ELSE <<>>)

\* lines 291-310, from the expanded query eq, the effective range rg, the
\* organ filter and what search_examples found
CandidatesOf(r, eq, rg, requested_org, fo) ==
  [qn |-> eq.qn, syn_added |-> eq.added,
   experto_activo |-> detect_urbanismo_catalan(eq.qn),
   d_desde |-> rg.d_desde, d_hasta |-> rg.d_hasta, requested_org |-> requested_org,
   nota_msgs |-> FirstMsgs(eq.added, detect_urbanismo_catalan(eq.qn), rg.invertido, fo.relajado),
   raw |-> Limit(OrdenExplicito(fo.raw, r.orden), r.limite)]

\* lines 288-289, from the expanded query and the effective range
CandidatesIn(r, corp, today, eq, rg, requested_org) ==
  CandidatesOf(r, eq, rg, requested_org,
               FilterOrgan(search_examples(eq.qn, rg.d_desde, rg.d_hasta, corp, today),
                           requested_org))

\* lines 268-310: everything up to the ordered, limited candidate list
Candidates(r, corp, today) ==
  CandidatesIn(r, corp, today, expand_query(r.query),
               EffectiveRange(parse_date(r.desde), parse_date(r.hasta)),
               RequestedOrg(r.organo))

make_nota(motivo, accion, info) ==
  (IF motivo # <<>> THEN <<[parte |-> "Motivo", texto |-> motivo]>> ELSE <<>>)
  \o (IF accion # <<>> THEN <<[parte |-> "Accion", texto |-> accion]>> ELSE <<>>)
  \o (IF info # <<>> THEN <<[parte |-> "Info", texto |-> info]>> ELSE <<>>)

\* lines 351-358: the entries appended to nota_msgs when nothing was found
\* (the order and de-duplication of sorted(set(sug)) are left out: the
\* entries never reach the response)
ZeroResultMsgs(qn, syn_added) ==
  LET sug == IF syn_added = <<>>
             THEN Flatten([i \in 1..Len(SYNONYMS) |->
                             IF Contains(qn, SYNONYMS[i].k) THEN SYNONYMS[i].vs ELSE <<>>])
             ELSE <<>>
  IN  (IF sug # <<>> THEN <<Msg("sugerencias_sinonimos", sug)>> ELSE <<>>)
      \o <<Msg("ajusta_terminos_o_rango", <<>>)>>

\* lines 308-387: formatting, link resolution and the response, from the
\* candidates c; probes maps the id of each returned candidate to what its
\* probe did
Respond(r, c, probes) ==
  LET final == [i \in 1..Len(c.raw) |->
                  ResolveLink(build_links(FormatRecord(c.raw[i])),
                              r.validar_enlaces, probes[c.raw[i].id_cendoj])]
      nota_msgs == c.nota_msgs
                   \o Flatten([i \in 1..Len(final) |->
                                 ResultMsgs(final[i], r.validar_enlaces, c.requested_org)])
      info_bits ==
        (IF r.orden \in {"relevancia_desc", "relevancia_asc"}
         THEN <<Msg("orden_ranking_hibrido", <<>>)>> ELSE <<>>)
        \o (IF c.experto_activo THEN <<Msg("experto_tematico_activo", <<>>)>> ELSE <<>>)
  IN  IF final = <<>>
      THEN \* nota_msgs, with the entries of lines 351-358, is not passed on
           LET unused == nota_msgs \o ZeroResultMsgs(c.qn, c.syn_added)
           IN  [status |-> 200, query |-> r.query, total |-> 0, resultados |-> <<>>,
                nota |-> make_nota(<<Msg("sin_resultados_exactos", <<>>)>>,
                                   <<Msg("prueba_sinonimos_o_ajusta_rango", <<>>)>>,
                                   <<Msg("ranking_hibrido_aplicado", <<>>)>>)]
      ELSE [status |-> 200, query |-> r.query, total |-> Len(final), resultados |-> final,
            nota |-> make_nota(<<>>, <<>>, nota_msgs \o info_bits)]

\* what a probe does when nothing else is said: it times out
NoProbe == [kind |-> "timeout", status |-> 0, pagina_error |-> FALSE]

\* the ids of the candidates l
Ids(l) == {l[i].id_cendoj : i \in 1..Len(l)}

\* the response from the candidates c, and a trace of the effective date
\* range the handler filtered with and of the date it ran on
RespondWith(r, c, today, probes) ==
  [resp |-> Respond(r, c, [id \in Ids(c.raw) |->
                             IF id \in DOMAIN probes THEN probes[id] ELSE NoProbe]),
   traza |-> [d_desde |-> c.d_desde, d_hasta |-> c.d_hasta, hoy |-> today]]

\* the whole handler
buscar_cendoj(r, corp, today, probes) ==
  RespondWith(r, Candidates(r, corp, today), today, probes)

\* ---------------------------------------------------------------- inputs
Queries ==
  { <<"fuera", SP, "de", SP, "ordenacion">>,
    <<"garaje", SP, "ilegal">>,
    <<"hipoteca">>,
    <<SP, "LDQUO", "Volumen", SP, SP, "DISCONFORME", "RDQUO", SP>>,
    <<"ordenacion", SP, "urbanizable">> }

DateInputs ==
  { NoneStr, Ymd(2020, 1, 1), Ymd(2025, 1, 1), Ymd(2023, 2, 30) }

OrganInputs ==
  { <<>>, <<"tsjc">>, <<"Audiencia", SP, "Nacional">> }

Ordenes == {"relevancia_desc", "fecha_desc", "fecha_asc"}

Requests ==
  [query : Queries, desde : DateInputs, hasta : DateInputs, orden : Ordenes,
   limite : {1, MaxLimite}, validar_enlaces : BOOLEAN, organo : OrganInputs]

\* the evaluation dates: 1 March of 2025, 2026, ...
Today(k) == <<2025 + k, 3, 1>>

NoTraza == [d_desde |-> None, d_hasta |-> None, hoy |-> None]

NoResp == [status |-> 0, query |-> <<>>, total |-> 0, resultados |-> <<>>, nota |-> <<>>]

NoPrev == [resp |-> NoResp, traza |-> NoTraza]

\* ------------------------------------------------------------ the machine
Init ==
  /\ corpus = EXAMPLES
  /\ hoy \in 0..MaxYears
  /\ req \in Requests
  /\ resp = NoResp
  /\ traza = NoTraza
  /\ prev = NoPrev
  /\ pc = "pendiente"

\* the clock moves on between requests
Tick ==
  /\ hoy < MaxYears
  /\ hoy' = hoy + 1
  /\ UNCHANGED <<corpus, req, resp, traza, prev, pc>>

\* the ids of the direct links the handler probes for request r
ProbedIds(r, corp, today) ==
  IF r.validar_enlaces THEN Ids(Candidates(r, corp, today).raw) ELSE {}

\* the handler's answer becomes the response
Answer(out) == resp' = out.resp /\ traza' = out.traza

\* GET /buscar-cendoj: the whole handler, each probe doing what the network does
Buscar ==
  /\ pc = "pendiente"
  /\ \E probes \in [ProbedIds(req, corpus, Today(hoy)) -> ProbeOutcomes] :
       Answer(buscar_cendoj(req, corpus, Today(hoy), probes))
  /\ pc' = "respondida"
  /\ UNCHANGED <<corpus, hoy, req, prev>>

Next == Tick \/ Buscar

Spec == Init /\ [][Next]_vars

\* --------------------------------------- the same request, issued again
InitRepeat ==
  /\ corpus = EXAMPLES
  /\ hoy \in 0..MaxYears
  /\ req \in {r \in Requests : ~r.validar_enlaces}
  /\ resp = NoResp
  /\ traza = NoTraza
  /\ prev = NoPrev
  /\ pc = "pendiente"

\* the client sends the request it sent before; the handler runs again
Repetir ==
  /\ pc = "respondida"
  /\ \E probes \in [ProbedIds(req, corpus, Today(hoy)) -> ProbeOutcomes] :
       Answer(buscar_cendoj(req, corpus, Today(hoy), probes))
  /\ prev' = [resp |-> resp, traza |-> traza]
  /\ UNCHANGED <<corpus, hoy, req, pc>>

NextRepeat == Tick \/ Buscar \/ Repetir

SpecRepeat == InitRepeat /\ [][NextRepeat]_vars

\* ------------------------- ranking over reference data of any content
\* the dates and relevances a record of the reference data may carry: those
\* of EXAMPLES, an empty date and a date that is no date
RankFechas == {EXAMPLES[k].fecha : k \in 1..Len(EXAMPLES)} \cup {EmptyStr, TextStr}
RankRelevancias == {EXAMPLES[k].relevancia : k \in 1..Len(EXAMPLES)}

\* the records of EXAMPLES, each with such a date and relevance
RankCorpora ==
  { [i \in 1..Len(EXAMPLES) |->
       [EXAMPLES[i] EXCEPT !.fecha = fr[i][1], !.relevancia = fr[i][2]]] :
    fr \in [1..Len(EXAMPLES) -> RankFechas \X RankRelevancias] }

InitRank ==
  /\ corpus \in RankCorpora
  /\ hoy \in 0..MaxYears
  /\ req \in {r \in Requests :
                /\ r.query = <<"ordenacion", SP, "urbanizable">>
                /\ r.desde = NoneStr /\ r.hasta = NoneStr /\ r.organo = <<>>
                /\ r.orden = "relevancia_desc" /\ r.limite = MaxLimite
                /\ ~r.validar_enlaces}
  /\ resp = NoResp
  /\ traza = NoTraza
  /\ prev = NoPrev
  /\ pc = "pendiente"

NextRank == Tick \/ Buscar

SpecRank == InitRank /\ [][NextRank]_vars

\* ------------------------------------------------------- reading a response
Resultados == resp.resultados

\* the tags of all entries of the note, part by part, in order
NotaEntries(n) == Flatten([i \in 1..Len(n) |-> n[i].texto])

NotaHas(n, t) == \E i \in 1..Len(NotaEntries(n)) : NotaEntries(n)[i].t = t

NotaCount(n, t) == Cardinality({i \in 1..Len(NotaEntries(n)) : NotaEntries(n)[i].t = t})

NotaHasPart(n, parte) == \E i \in 1..Len(n) : n[i].parte = parte

\* a probe that did not confirm the link
Inconclusive == {"timeout", "status_no_200", "pagina_error"}

\* ------------------------------------------------------------------ C1
\* C1: every returned result reports exactly one of the strategies directo,
\* estable, and its preferred link is url_directo under directo and
\* url_estable under estable.
Inv_C1_StrategyMatchesPreferred ==
  pc = "respondida" =>
    \A i \in 1..Len(Resultados) :
      /\ Resultados[i].estrategia_enlace \in {"directo", "estable"}
      /\ Resultados[i].estrategia_enlace = "directo" =>
           Resultados[i].enlace_preferido = Resultados[i].url_directo
      /\ Resultados[i].estrategia_enlace = "estable" =>
           Resultados[i].enlace_preferido = Resultados[i].url_estable

Wit_C1_BothStrategies ==
  /\ pc = "respondida"
  /\ \E i, k \in 1..Len(Resultados) :
       /\ Resultados[i].estrategia_enlace = "directo"
       /\ Resultados[i].enlace_preferido = Resultados[i].url_directo
       /\ Resultados[k].estrategia_enlace = "estable"
       /\ Resultados[k].sonda \in Inconclusive

\* ------------------------------------------------------------------ C2
\* C2: directo is reported only when validation was not requested or the
\* probe of that result confirmed the link; with validation requested and a
\* probe that timed out or failed, the result is estable and its preferred
\* link is the stable URL, not the direct one.
Inv_C2_DirectOnlyWhenConfirmed ==
  pc = "respondida" =>
    \A i \in 1..Len(Resultados) :
      /\ Resultados[i].estrategia_enlace = "directo" =>
           (~req.validar_enlaces \/ Resultados[i].sonda = "ok")
      /\ (req.validar_enlaces /\ Resultados[i].sonda \in Inconclusive) =>
           /\ Resultados[i].estrategia_enlace = "estable"
           /\ Resultados[i].enlace_preferido = Resultados[i].url_estable
           /\ Resultados[i].enlace_preferido # Resultados[i].url_directo

Wit_C2_FailedProbes ==
  /\ pc = "respondida"
  /\ req.validar_enlaces
  /\ \E i, k \in 1..Len(Resultados) :
       /\ Resultados[i].sonda = "timeout"
       /\ Resultados[k].sonda = "pagina_error"
       /\ Resultados[i].estrategia_enlace = "estable"

\* ------------------------------------------------------------------ C3
\* C3: with validation requested and an inconclusive probe, the result's
\* enlace_directo_ok is unknown (None), not false, and the result is estable
\* with the stable URL preferred.
Claim_C3_InconclusiveIsUnknown ==
  (pc = "respondida" /\ req.validar_enlaces) =>
    \A i \in 1..Len(Resultados) :
      Resultados[i].sonda \in Inconclusive =>
        /\ Resultados[i].enlace_directo_ok = "None"
        /\ Resultados[i].enlace_preferido = Resultados[i].url_estable
        /\ Resultados[i].estrategia_enlace = "estable"

\* ------------------------------------------------------------------ C4
\* C4: with both date bounds given, an ordered range is used as given, and an
\* inverted range is used swapped and the note says it was corrected, also
\* when nothing is found.
Claim_C4_RangeCorrectedAndNoted ==
  LET f == parse_date(req.desde)
      t == parse_date(req.hasta)
  IN  (pc = "respondida" /\ f # None /\ t # None) =>
        IF ~DateLess(t, f)
        THEN traza.d_desde = f /\ traza.d_hasta = t
        ELSE /\ traza.d_desde = t /\ traza.d_hasta = f
             /\ NotaHas(resp.nota, "rango_fechas_corregido")

\* ------------------------------------------------------------------ C5
\* every word of qn occurs in the record's title, organ and chamber
StrictMatch(qn, r) ==
  LET text == normalize_text(r.titulo \o <<SP>> \o r.organo \o <<SP>> \o r.sala)
  IN  \A i \in 1..Len(qn) : qn[i] = SP \/ Contains(text, <<qn[i]>>)

HasSynonymKey(qn) == \E i \in 1..Len(SYNONYMS) : Contains(qn, SYNONYMS[i].k)

\* C5: a query without filters that no record matches strictly but that
\* contains a key of the synonym table gets a non-empty result set and a note
\* entry saying synonyms were used.
Claim_C5_SynonymsRescueQuery ==
  LET qn == normalize_text(req.query)
  IN  ( /\ pc = "respondida"
        /\ req.desde = NoneStr /\ req.hasta = NoneStr /\ req.organo = <<>>
        /\ HasSynonymKey(qn)
        /\ \A i \in 1..Len(corpus) : ~StrictMatch(qn, corpus[i]) ) =>
        /\ resp.total > 0
        /\ Resultados # <<>>
        /\ NotaHas(resp.nota, "sinonimos_anadidos")

\* ------------------------------------------------------------------ C6
\* a date parameter that is present and is no valid YYYY-MM-DD date
Malformed(d) == d.kind \notin {"none", "empty"} /\ ~ValidYmd(d)

\* C6: a request with a malformed desde or hasta gets a client error, not a
\* successful response.
Claim_C6_MalformedDateIsError ==
  (pc = "respondida" /\ (Malformed(req.desde) \/ Malformed(req.hasta))) =>
    resp.status \in 400..499

\* ------------------------------------------------------------------ C7
\* the synonyms of every key of the table that the query contains
KeySynonyms(qn) ==
  Flatten([i \in 1..Len(SYNONYMS) |->
             IF Contains(qn, SYNONYMS[i].k) THEN SYNONYMS[i].vs ELSE <<>>])

\* the note names the synonym v in one of its entries
NotaNames(n, v) ==
  \E i \in 1..Len(NotaEntries(n)) :
    \E k \in 1..Len(NotaEntries(n)[i].arg) : NotaEntries(n)[i].arg[k] = v

\* C7: an empty result set comes as a success with total 0 and a note with a
\* motive, an action and suggestions: the synonyms of every key of the table
\* in the query, or the generic hint to adjust terms or dates when there is
\* none.
Claim_C7_EmptyResultNote ==
  LET qn == normalize_text(req.query)
      sug == KeySynonyms(qn)
  IN  (pc = "respondida" /\ Resultados = <<>>) =>
        /\ resp.status = 200
        /\ resp.total = 0
        /\ resp.nota # None
        /\ NotaHasPart(resp.nota, "Motivo")
        /\ NotaHasPart(resp.nota, "Accion")
        /\ IF sug # <<>>
           THEN \A k \in 1..Len(sug) : NotaNames(resp.nota, sug[k])
           ELSE \/ NotaHas(resp.nota, "ajusta_terminos_o_rango")
                \/ NotaHas(resp.nota, "prueba_sinonimos_o_ajusta_rango")

\* ------------------------------------------------------------------ C9
\* C9: when the organ filter removes every candidate and there are
\* candidates without it, the unfiltered candidates are returned and the
\* note carries the relaxation once, no organ entry being repeated per
\* result; when the filter keeps a candidate, every result's organ contains
\* the filter and the note has no relaxation entry.
Claim_C9_OrganRelaxation ==
  LET org == normalize_text(req.organo)
      sin == Candidates([req EXCEPT !.organo = <<>>], corpus, traza.hoy).raw
      todos == Candidates([req EXCEPT !.organo = <<>>, !.limite = 50], corpus, traza.hoy).raw
      OrgOk(x) == Contains(normalize_text(x.organo), org)
      kept == SelectSeq(todos, OrgOk)
  IN  (pc = "respondida" /\ org # <<>> /\ todos # <<>>) =>
        IF kept = <<>>
        THEN /\ Len(Resultados) = Len(sin)
             /\ \A i \in 1..Len(sin) : Resultados[i].id_cendoj = sin[i].id_cendoj
             /\ NotaCount(resp.nota, "organo_relajado") = 1
             /\ NotaCount(resp.nota, "algun_resultado_organo_distinto") <= 1
        ELSE /\ \A i \in 1..Len(Resultados) : OrgOk(Resultados[i])
             /\ ~NotaHas(resp.nota, "organo_relajado")
             /\ ~NotaHas(resp.nota, "algun_resultado_organo_distinto")
\* ------------------------------------------------------------------ C8
Repeated == pc = "respondida" /\ prev # NoPrev /\ ~req.validar_enlaces

\* C8 as claimed: a request without validation that is issued again gets the
\* same results, in the same order, and the same note, whatever the dates
\* the two runs happen on.
Claim_C8_IdempotentAtAnyDate == Repeated => resp = prev.resp

\* C8 as amended: issued again, a request without validation gets the same
\* number of results and the same note at any date, and the same results in
\* the same order when both runs happen on the same date or the order asked
\* for is by date.
Inv_C8_IdempotentSameDateOrDateOrder ==
  Repeated =>
    /\ resp.total = prev.resp.total
    /\ resp.nota = prev.resp.nota
    /\ (traza.hoy = prev.traza.hoy \/ req.orden \in {"fecha_desc", "fecha_asc"}) =>
         resp = prev.resp

Wit_C8_RepeatedLater ==
  /\ Repeated
  /\ traza.hoy # prev.traza.hoy
  /\ req.orden = "fecha_asc"
  /\ Len(Resultados) >= 2
  /\ resp = prev.resp

\* ----------------------------------------------------------------- C10
\* the score the claim describes, on the scale of hybrid_score: 0.7 relevance
\* + 0.3 recency, recency 0.5 for a date that is missing or unparseable
ClaimScore(rec, today) ==
  LET rel == Max(0, Min(100, rec.relevancia))
      recency2 == IF ValidYmd(rec.fecha)
                  THEN 2 * Max(0, DECAY_DAYS
                                  - Max(0, Ordinal(today)
                                           - Ordinal(<<rec.fecha.y, rec.fecha.m, rec.fecha.d>>)))
                  ELSE DECAY_DAYS
  IN  2 * W_REL * rel * DECAY_DAYS + W_REC * 100 * recency2

\* C10: in the default order the results are in non-increasing order of
\* 0.7 relevance + 0.3 recency, a record with a missing or unparseable date
\* being scored with recency 0.5, and of two results with equal score the
\* more recent comes first.
Claim_C10_HybridOrder ==
  (pc = "respondida" /\ req.orden = "relevancia_desc") =>
    \A i, k \in 1..Len(Resultados) :
      i < k =>
        /\ ClaimScore(Resultados[i], traza.hoy) >= ClaimScore(Resultados[k], traza.hoy)
        /\ ( /\ ClaimScore(Resultados[i], traza.hoy) = ClaimScore(Resultados[k], traza.hoy)
             /\ ValidYmd(Resultados[i].fecha) /\ ValidYmd(Resultados[k].fecha) ) =>
             FechaKey(Resultados[i].fecha) >= FechaKey(Resultados[k].fecha)
====
